---- MODULE Spec2Model ----
(***************************************************************************)
(* GitBoss: repository discovery (scan_for_repositories), reconciliation   *)
(* of the persisted repository list with a scan (_collect_repositories),   *)
(* the main window's add / remove / rescan handlers, and the status        *)
(* refresh of the selected repository through GitManager.                  *)
(*                                                                         *)
(* A path (pathlib.Path) is the sequence of its segments; the first        *)
(* segment stands for the absolute prefix, so <<"w","a">> is /w/a.  A      *)
(* string naming a path is a sequence of segments too, and may hold "."    *)
(* segments, which Path() drops.  The empty sequence is the empty string.  *)
(***************************************************************************)
EXTENDS Naturals, Sequences, FiniteSets, TLC

VARIABLES
    fs,       \* the filesystem: directories, .git markers, symlinks, unlistable dirs
    disk,     \* the saved configuration: in Spec and SpecMerge the document that
              \* config.json holds, in SpecConfig the texts of config.json and of
              \* its .corrupted backup
    config,   \* the AppConfig object held by main() and the MainWindow
    items,    \* RepositoryListWidget: the item data strings, in row order
    repos,    \* MainWindow.repos
    current,  \* current row of the list widget, 0 when there is no current item
    pc,       \* where main() is: "start", "wizard", "collect", "window", "exited", "crashed"
    last,     \* history: the last handler that ran, its argument and the state before it
    call,     \* the function call under study in SpecMerge and SpecScan
    status    \* the status panel and the outcome of the last _on_repo_selected

vars == <<fs, disk, config, items, repos, current, pc, last, call, status>>

----------------------------------------------------------------------------
(* Bounds of the model.                                                    *)

\* longest persisted repository list drawn at Init
MaxStored == 2
\* _on_add_repo is explored while the list is shorter than this
MaxRepos == 3
\* deepest directory below the base directory in the trees of SpecScan
MaxTreeDepth == 3
\* largest max_depth argument given to scan_for_repositories in SpecScan
MaxScanDepth == 2

\* entries of a persisted list beside settings changed from the defaults
MaxStoredCustom == 0

\* queries made in a behaviour of SpecGit
MaxQueries == 3

\* scan_for_repositories' default max_depth, used by both callers
DefaultMaxDepth == 2

----------------------------------------------------------------------------
(* Sequences.                                                              *)

Range(s) == {s[i] : i \in 1..Len(s)}

IsPrefix(p, q) == Len(p) <= Len(q) /\ SubSeq(q, 1, Len(p)) = p

Parent(p) == IF Len(p) <= 1 THEN p ELSE SubSeq(p, 1, Len(p) - 1)

\* list.index(x) + 1; 0 when x is not in the list
IndexOf(s, x) ==
    IF x \in Range(s) THEN CHOOSE i \in 1..Len(s) : s[i] = x /\ \A j \in 1..(i - 1) : s[j] # x
    ELSE 0

RemoveAt(s, i) == SubSeq(s, 1, i - 1) \o SubSeq(s, i + 1, Len(s))

\* all sequences over S of length at most n
RECURSIVE SeqsUpTo(_, _)
SeqsUpTo(S, n) ==
    IF n = 0 THEN {<<>>}
    ELSE LET shorter == SeqsUpTo(S, n - 1)
         IN  shorter \cup {Append(s, x) : s \in {t \in shorter : Len(t) = n - 1}, x \in S}

----------------------------------------------------------------------------
(* Paths and the filesystem.                                               *)

\* Path(s): pathlib drops "." segments (and repeated or trailing slashes)
PathOf(s) == SelectSeq(s, LAMBDA seg : seg # ".")

\* str(path)
StrOf(p) == p

\* name.startswith(".") for the names of the model
StartsWithDot(name) == name \in {".h", ".git", ".", ".."}

\* the order in which a directory listing yields its entries
ListingOrder == <<"l", "a", "b", ".h">>

\* Path.resolve(): walk the segments from the root, step back on "..",
\* replace a symbolic link by its target
RECURSIVE Walk(_, _, _)
Walk(f, cur, rest) ==
    IF rest = <<>> THEN cur
    ELSE LET seg == Head(rest)
             nxt == Append(cur, seg)
         IN  IF seg = ".." THEN Walk(f, Parent(cur), Tail(rest))
             ELSE IF nxt \in DOMAIN f.links THEN Walk(f, f.links[nxt], Tail(rest))
             ELSE Walk(f, nxt, Tail(rest))

Resolve(f, p) == Walk(f, <<>>, p)

\* Path.exists() and Path.is_dir() follow symbolic links
IsDir(f, p) == Resolve(f, p) \in f.dirs

Exists(f, p) == IsDir(f, p)

\* is_git_repository(path): (path / ".git").is_dir()
IsGitRepository(f, p) == Resolve(f, p) \in f.git

\* a directory whose listing is denied (mode 000): iterdir() raises PermissionError
Unlistable(f, p) == Resolve(f, p) \in f.locked

\* the names directory.iterdir() yields that are directories, in listing order
ChildDirs(f, directory) ==
    SelectSeq(ListingOrder, LAMBDA name : IsDir(f, Append(directory, name)))

----------------------------------------------------------------------------
(* scan_for_repositories.  A result is [ok |-> TRUE, repos |-> list], or   *)
(* [ok |-> FALSE, repos |-> <<>>] when the call raises.                    *)

Returned(list) == [ok |-> TRUE, repos |-> list]

Raised == [ok |-> FALSE, repos |-> <<>>]

RECURSIVE ScanDir(_, _, _, _)
RECURSIVE ScanChildren(_, _, _, _, _)

\* a _scan whose depth guard is off by one
ScanDirStopsEarly(f, directory, depth, max_depth) ==
    IF depth >= max_depth THEN Returned(<<>>)
    ELSE IF Unlistable(f, directory) THEN Raised
    ELSE IF IsGitRepository(f, directory) THEN Returned(<<directory>>)
    ELSE IF ~IsDir(f, directory) THEN Raised
    ELSE ScanChildren(f, directory, ChildDirs(f, directory), depth, max_depth)

\* a _scan that records a repository and goes on into its children
ScanDirDescendsIntoRepository(f, directory, depth, max_depth) ==
    IF depth > max_depth THEN Returned(<<>>)
    ELSE IF Unlistable(f, directory) THEN Raised
    ELSE IF ~IsDir(f, directory) THEN Raised
    ELSE LET below == ScanChildren(f, directory, ChildDirs(f, directory), depth, max_depth)
         IN  IF ~IsGitRepository(f, directory) THEN below
             ELSE IF below.ok THEN Returned(<<directory>> \o below.repos)
             ELSE Raised

\* _scan(directory, depth); the repositories it appends.  It raises when
\* (directory / ".git").is_dir() or directory.iterdir() is denied, and when
\* iterdir() is given something that is no directory
ScanDir(f, directory, depth, max_depth) ==
    IF depth > max_depth THEN Returned(<<>>)
    ELSE IF Unlistable(f, directory) THEN Raised
    ELSE IF IsGitRepository(f, directory) THEN Returned(<<directory>>)
    ELSE IF ~IsDir(f, directory) THEN Raised
    ELSE ScanChildren(f, directory, ChildDirs(f, directory), depth, max_depth)

\* a for loop of _scan that enters the dot-named children too
ScanChildrenEntersDotDirs(f, directory, names, depth, max_depth) ==
    IF names = <<>> THEN Returned(<<>>)
    ELSE LET first == ScanDir(f, Append(directory, Head(names)), depth + 1, max_depth)
             rest  == ScanChildren(f, directory, Tail(names), depth, max_depth)
         IN  IF first.ok /\ rest.ok THEN Returned(first.repos \o rest.repos)
             ELSE Raised

\* the for loop of _scan over the children that are directories
ScanChildren(f, directory, names, depth, max_depth) ==
    IF names = <<>> THEN Returned(<<>>)
    ELSE IF StartsWithDot(Head(names))
         THEN ScanChildren(f, directory, Tail(names), depth, max_depth)
         ELSE LET first == ScanDir(f, Append(directory, Head(names)), depth + 1, max_depth)
                  rest  == ScanChildren(f, directory, Tail(names), depth, max_depth)
              IN  IF first.ok /\ rest.ok THEN Returned(first.repos \o rest.repos)
                  ELSE Raised

\* a scan_for_repositories without the test of base_directory.exists()
ScanWithoutExistsTest(f, base_directory, max_depth) ==
    ScanDir(f, Resolve(f, base_directory), 0, max_depth)

ScanForRepositories(f, base_directory, max_depth) ==
    IF ~Exists(f, base_directory) THEN Returned(<<>>)
    ELSE ScanDir(f, Resolve(f, base_directory), 0, max_depth)

\* the directories on which _scan evaluates is_git_repository
RECURSIVE Examined(_, _, _, _)
Examined(f, directory, depth, max_depth) ==
    IF depth > max_depth THEN {}
    ELSE IF Unlistable(f, directory) \/ IsGitRepository(f, directory) \/ ~IsDir(f, directory)
         THEN {directory}
         ELSE {directory} \cup
              UNION {Examined(f, Append(directory, name), depth + 1, max_depth) :
                         name \in {n \in Range(ChildDirs(f, directory)) : ~StartsWithDot(n)}}

----------------------------------------------------------------------------
(* The configuration and the two merges.                                   *)

\* the default of auto_fetch_interval
DefaultInterval == 15

\* the fields of AppConfig beside base_directory and the repository list,
\* with the defaults of the dataclass; other_preferences is the set of the
\* <<key, value>> pairs of preferences beside "repositories"
DefaultSettings ==
    [auto_fetch_interval |-> DefaultInterval, default_theme |-> "dark",
     last_active_repo |-> "", git_user_name |-> "", git_user_email |-> "",
     other_preferences |-> {}]

\* AppConfig: base_directory is a string, repositories is
\* preferences.get("repositories", []), a list of strings
ConfigOf(base, repositories, settings) ==
    [base_directory      |-> base,
     auto_fetch_interval |-> settings.auto_fetch_interval,
     default_theme       |-> settings.default_theme,
     last_active_repo    |-> settings.last_active_repo,
     git_user_name       |-> settings.git_user_name,
     git_user_email      |-> settings.git_user_email,
     repositories        |-> repositories,
     other_preferences   |-> settings.other_preferences]

\* AppConfig(base_directory=base, preferences={"repositories": repositories})
AppConfig(base, repositories) == ConfigOf(base, repositories, DefaultSettings)

DefaultConfig == AppConfig(<<>>, <<>>)

\* the fields of cfg beside base_directory and the repository list
SettingsOf(cfg) ==
    [auto_fetch_interval |-> cfg.auto_fetch_interval,
     default_theme       |-> cfg.default_theme,
     last_active_repo    |-> cfg.last_active_repo,
     git_user_name       |-> cfg.git_user_name,
     git_user_email      |-> cfg.git_user_email,
     other_preferences   |-> cfg.other_preferences]

\* a value of a JSON document where the code converts it: a number, a
\* string or null
JsonInt(n) == [t |-> "int", v |-> n]

JsonStr(str) == [t |-> "str", v |-> str]

JsonNull == [t |-> "null", v |-> 0]

\* the strings of the model that int() reads as a number
Numerals == [str \in {"20"} |-> 20]

\* int(value): a string that is no numeral raises ValueError, None TypeError
IntOf(value) ==
    IF value.t = "int" THEN [raised |-> "none", v |-> value.v]
    ELSE IF value.t = "null" THEN [raised |-> "TypeError", v |-> 0]
    ELSE IF value.v \in DOMAIN Numerals THEN [raised |-> "none", v |-> Numerals[value.v]]
    ELSE [raised |-> "ValueError", v |-> 0]

\* the keys of the document in the order to_dict gives them; "repositories"
\* and "other_preferences" stand for the content of "preferences"
DocumentKeys ==
    <<"base_directory", "auto_fetch_interval", "default_theme", "last_active_repo",
      "git_user_name", "git_user_email", "repositories", "other_preferences">>

\* a to_dict that leaves the content of preferences out
ToDictWithoutPreferences(cfg) ==
    [base_directory      |-> cfg.base_directory,
     auto_fetch_interval |-> JsonInt(cfg.auto_fetch_interval),
     default_theme       |-> cfg.default_theme,
     last_active_repo    |-> cfg.last_active_repo,
     git_user_name       |-> cfg.git_user_name,
     git_user_email      |-> cfg.git_user_email]

\* AppConfig.to_dict
ToDict(cfg) ==
    [base_directory      |-> cfg.base_directory,
     auto_fetch_interval |-> JsonInt(cfg.auto_fetch_interval),
     default_theme       |-> cfg.default_theme,
     last_active_repo    |-> cfg.last_active_repo,
     git_user_name       |-> cfg.git_user_name,
     git_user_email      |-> cfg.git_user_email,
     repositories        |-> cfg.repositories,
     other_preferences   |-> cfg.other_preferences]

\* data.get(key, default)
Get(data, key, default) == IF key \in DOMAIN data THEN data[key] ELSE default

\* AppConfig.from_dict(data): [raised, config]
FromDict(data) ==
    LET interval == IntOf(Get(data, "auto_fetch_interval", JsonInt(DefaultInterval)))
    IN  IF interval.raised # "none" THEN [raised |-> interval.raised, config |-> DefaultConfig]
        ELSE [raised |-> "none",
              config |->
                  [base_directory      |-> Get(data, "base_directory", <<>>),
                   auto_fetch_interval |-> interval.v,
                   default_theme       |-> Get(data, "default_theme", "dark"),
                   last_active_repo    |-> Get(data, "last_active_repo", ""),
                   git_user_name       |-> Get(data, "git_user_name", ""),
                   git_user_email      |-> Get(data, "git_user_email", ""),
                   repositories        |-> Get(data, "repositories", <<>>),
                   other_preferences   |-> Get(data, "other_preferences", {})]]

\* The text of a file is the sequence of the pieces json.dump writes: the
\* opening brace, one member for each key, the closing brace.
OpenBrace == [t |-> "{"]

CloseBrace == [t |-> "}"]

Member(key, value) == [t |-> "member", key |-> key, value |-> value]

\* a text that is no JSON, such as not-json
NotJson == <<[t |-> "junk"]>>

\* the text [], which is JSON and no object
JsonArray == <<[t |-> "[]"]>>

RECURSIVE Members(_, _)
Members(document, keys) ==
    IF keys = <<>> THEN <<>>
    ELSE (IF Head(keys) \in DOMAIN document
          THEN <<Member(Head(keys), document[Head(keys)])>> ELSE <<>>)
         \o Members(document, Tail(keys))

\* json.dump(document, file, indent=2)
JsonDump(document) == <<OpenBrace>> \o Members(document, DocumentKeys) \o <<CloseBrace>>

\* json.load(file): ok is FALSE on JSONDecodeError; object tells whether the
\* value read is a dict, and data is that dict
JsonLoad(text) ==
    LET n == Len(text)
        inner == 2..(n - 1)
    IN  IF text = JsonArray THEN [ok |-> TRUE, object |-> FALSE, data |-> <<>>]
        ELSE IF /\ n >= 2
                /\ text[1].t = "{"
                /\ text[n].t = "}"
                /\ \A i \in inner : text[i].t = "member"
        THEN [ok |-> TRUE, object |-> TRUE,
              data |-> [key \in {text[i].key : i \in inner} |->
                           text[CHOOSE i \in inner :
                                    /\ text[i].key = key
                                    /\ \A j \in inner : j > i => text[j].key # key].value]]
        ELSE [ok |-> FALSE, object |-> FALSE, data |-> <<>>]

\* the configuration directory: config.json and config.corrupted
NoFile == [exists |-> FALSE, text |-> <<>>]

FileOf(text) == [exists |-> TRUE, text |-> text]

\* a load_config that leaves the file it cannot parse where it is
LoadConfigKeepsFile(directory, rename_ok) ==
    IF ~directory.file.exists
    THEN [raised |-> "none", config |-> DefaultConfig, disk |-> directory]
    ELSE LET parsed == JsonLoad(directory.file.text)
         IN  IF ~parsed.ok
             THEN [raised |-> "none", config |-> DefaultConfig, disk |-> directory]
             ELSE IF ~parsed.object
             THEN [raised |-> "AttributeError", config |-> DefaultConfig, disk |-> directory]
             ELSE [raised |-> FromDict(parsed.data).raised,
                   config |-> FromDict(parsed.data).config, disk |-> directory]

\* load_config(): the exception that leaves it or "none", the AppConfig it
\* returns, and the directory after it; rename_ok tells whether
\* CONFIG_FILE.rename succeeds (its OSError is passed over)
LoadConfigFile(directory, rename_ok) ==
    IF ~directory.file.exists
    THEN [raised |-> "none", config |-> DefaultConfig, disk |-> directory]
    ELSE LET parsed == JsonLoad(directory.file.text)
         IN  IF ~parsed.ok
             THEN [raised |-> "none", config |-> DefaultConfig,
                   disk |-> IF rename_ok
                            THEN [file |-> NoFile, backup |-> directory.file]
                            ELSE directory]
             ELSE IF ~parsed.object
             THEN [raised |-> "AttributeError", config |-> DefaultConfig, disk |-> directory]
             ELSE [raised |-> FromDict(parsed.data).raised,
                   config |-> FromDict(parsed.data).config, disk |-> directory]

\* save_config(config): open("w") empties the file, json.dump writes the text
SaveConfigFile(directory, cfg) ==
    [directory EXCEPT !.file = FileOf(JsonDump(ToDict(cfg)))]

\* a save_config that ends after json.dump has written the first n pieces
SaveConfigCutAt(directory, cfg, n) ==
    [directory EXCEPT !.file = FileOf(SubSeq(JsonDump(ToDict(cfg)), 1, n))]

\* [Path(p) for p in strings]
PathsOf(strings) == [i \in 1..Len(strings) |-> PathOf(strings[i])]

\* [str(repo) for repo in paths]
StrsOf(paths) == [i \in 1..Len(paths) |-> StrOf(paths[i])]

\* a name with an embedded null byte: Path() takes it, resolve() raises on it
NullByteName == "a\\0"

\* repo.resolve() raises ValueError
ResolveRaises(p) == NullByteName \in Range(p)

\* a merge loop that compares the entries as spelled, without resolve()
RECURSIVE MergeLoopNoResolve(_, _, _, _)
MergeLoopNoResolve(f, todo, merged, seen) ==
    IF todo = <<>> THEN merged
    ELSE LET repo == Head(todo)
         IN  IF repo \notin seen
             THEN MergeLoopNoResolve(f, Tail(todo), Append(merged, repo), seen \cup {repo})
             ELSE MergeLoopNoResolve(f, Tail(todo), merged, seen)

\* a merge loop that leaves out the entries that are no directory on disk
RECURSIVE MergeLoopExistingOnly(_, _, _, _)
MergeLoopExistingOnly(f, todo, merged, seen) ==
    IF todo = <<>> THEN merged
    ELSE LET repo == Resolve(f, Head(todo))
         IN  IF repo \notin seen /\ IsDir(f, repo)
             THEN MergeLoopExistingOnly(f, Tail(todo), Append(merged, repo), seen \cup {repo})
             ELSE MergeLoopExistingOnly(f, Tail(todo), merged, seen)

\* the loop of _collect_repositories: resolve each entry, keep the first
\* occurrence of each resolved path
RECURSIVE MergeLoop(_, _, _, _)
MergeLoop(f, todo, merged, seen) ==
    IF todo = <<>> THEN merged
    ELSE LET repo == Resolve(f, Head(todo))
         IN  IF repo \notin seen
             THEN MergeLoop(f, Tail(todo), Append(merged, repo), seen \cup {repo})
             ELSE MergeLoop(f, Tail(todo), merged, seen)

\* a merge that takes the scan result first
MergeScannedFirst(f, stored, scanned) == MergeLoop(f, scanned \o stored, <<>>, {})

\* the startup merge of a stored list with a scan result
Merge(f, stored, scanned) == MergeLoop(f, stored \o scanned, <<>>, {})

\* _collect_repositories(config); an exception of the scan or of a
\* resolve() in the loop leaves the function
CollectRepositories(f, cfg) ==
    LET stored == PathsOf(cfg.repositories)
    IN  IF cfg.base_directory # <<>>
        THEN LET scan == ScanForRepositories(f, PathOf(cfg.base_directory), DefaultMaxDepth)
             IN  IF ~scan.ok THEN Raised
                 ELSE IF \E i \in 1..Len(stored) : ResolveRaises(stored[i]) THEN Raised
                 ELSE Returned(Merge(f, stored, scan.repos))
        ELSE Returned(stored)

\* list(dict.fromkeys(xs)): the first occurrence of each key, compared with ==
RECURSIVE DictFromKeys(_, _)
DictFromKeys(xs, acc) ==
    IF xs = <<>> THEN acc
    ELSE DictFromKeys(Tail(xs), IF Head(xs) \in Range(acc) THEN acc ELSE Append(acc, Head(xs)))

\* a rescan merge that concatenates without removing repeated keys
RescanMergeNoDedup(current_repos, scanned) == current_repos \o scanned

\* the merge of _on_rescan_repositories: list(dict.fromkeys([*self.repos, *scanned]))
RescanMerge(current_repos, scanned) == DictFromKeys(current_repos \o scanned, <<>>)

----------------------------------------------------------------------------
(* GitManager.  What GitPython finds at a path is a record w: tree is      *)
(* "absent" (no such path), "invalid" (no working tree there) or "valid";  *)
(* dirty is the state of the working tree; diff_fails and status_fails     *)
(* say that the git command behind is_dirty and behind list_status exits   *)
(* with an error (GitCommandError).  A method returns [manager, raised,    *)
(* value]: the manager after the call, the exception that left it or       *)
(* "none", and the value returned.                                         *)

None == "None"

\* GitManager.__init__; opens counts the Repo objects assigned to self.repo
GitManager(repo_path) == [repo_path |-> repo_path, repo |-> None, opens |-> 0]

\* Repo(path) raises NoSuchPathError for a path that does not exist and
\* InvalidGitRepositoryError for one that is no working tree; load() turns
\* only the second into ValueError
Load(w, manager) ==
    IF w.tree = "absent" THEN [manager |-> manager, raised |-> "NoSuchPathError"]
    ELSE IF w.tree = "invalid" THEN [manager |-> manager, raised |-> "ValueError"]
    ELSE [manager |-> [manager EXCEPT !.repo = manager.repo_path, !.opens = @ + 1],
          raised |-> "none"]

\* a query that calls load() whether or not self.repo is set
LoadAlways(w, manager) == Load(w, manager)

\* if not self.repo: self.load()
LoadIfUnset(w, manager) ==
    IF manager.repo = None THEN Load(w, manager)
    ELSE [manager |-> manager, raised |-> "none"]

Branches == <<"main">>

IsDirty(w, manager) ==
    LET loaded == LoadIfUnset(w, manager)
    IN  IF loaded.raised # "none"
        THEN [manager |-> loaded.manager, raised |-> loaded.raised, value |-> FALSE]
        ELSE IF w.diff_fails
        THEN [manager |-> loaded.manager, raised |-> "GitCommandError", value |-> FALSE]
        ELSE [manager |-> loaded.manager, raised |-> "none", value |-> w.dirty]

ListBranches(w, manager) ==
    LET loaded == LoadIfUnset(w, manager)
    IN  IF loaded.raised # "none"
        THEN [manager |-> loaded.manager, raised |-> loaded.raised, value |-> <<>>]
        ELSE [manager |-> loaded.manager, raised |-> "none", value |-> Branches]

\* current_branch: repo.active_branch raises TypeError on a detached HEAD
CurrentBranch(w, manager, detached) ==
    LET loaded == LoadIfUnset(w, manager)
    IN  IF loaded.raised # "none"
        THEN [manager |-> loaded.manager, raised |-> loaded.raised, value |-> ""]
        ELSE IF detached
        THEN [manager |-> loaded.manager, raised |-> "TypeError", value |-> ""]
        ELSE [manager |-> loaded.manager, raised |-> "none", value |-> Head(Branches)]

\* the lines of git status --porcelain: none on a clean tree
StatusLines(w) == IF w.dirty THEN <<"?? f">> ELSE <<>>

\* a list_status that lets GitCommandError through
ListStatusPropagates(w, manager) ==
    LET loaded == LoadIfUnset(w, manager)
    IN  IF loaded.raised # "none"
        THEN [manager |-> loaded.manager, raised |-> loaded.raised, value |-> <<>>]
        ELSE IF w.status_fails
        THEN [manager |-> loaded.manager, raised |-> "GitCommandError", value |-> <<>>]
        ELSE [manager |-> loaded.manager, raised |-> "none", value |-> StatusLines(w)]

\* list_status: GitCommandError is caught and [] returned
ListStatus(w, manager) ==
    LET loaded == LoadIfUnset(w, manager)
    IN  IF loaded.raised # "none"
        THEN [manager |-> loaded.manager, raised |-> loaded.raised, value |-> <<>>]
        ELSE IF w.status_fails
        THEN [manager |-> loaded.manager, raised |-> "none", value |-> <<>>]
        ELSE [manager |-> loaded.manager, raised |-> "none", value |-> StatusLines(w)]

\* the try block of _refresh_current_repo: the four queries in turn, left
\* at the first one that raises
RefreshQueries(w, current_repo) ==
    LET dirty    == IsDirty(w, GitManager(current_repo))
        first    == ListBranches(w, dirty.manager)
        branches == ListBranches(w, first.manager)
        lines    == ListStatus(w, branches.manager)
        raised   == IF dirty.raised # "none" THEN dirty.raised
                    ELSE IF first.raised # "none" THEN first.raised
                    ELSE IF branches.raised # "none" THEN branches.raised
                    ELSE lines.raised
        manager  == IF dirty.raised # "none" THEN dirty.manager
                    ELSE IF first.raised # "none" THEN first.manager
                    ELSE IF branches.raised # "none" THEN branches.manager
                    ELSE lines.manager
    IN  [raised |-> raised, manager |-> manager, dirty |-> dirty.value,
         branch_list |-> branches.value, status_lines |-> lines.value]

\* the status panel: label is "prompt" (the text set at construction),
\* "none" (no repository selected) or "details", with the values shown;
\* raised, handle, tree and status_failed tell how the last refresh went
NoStatus ==
    [label |-> "prompt", dirty |-> FALSE, branches |-> 0, modified |-> 0,
     raised |-> "none", handle |-> FALSE, tree |-> "none", status_failed |-> FALSE]

\* _on_repo_selected(None, previous)
RepoDeselected == [NoStatus EXCEPT !.label = "none"]

\* RepositoryListWidget.populate: clear() drops the current item, and the
\* widget then signals that there is none
AfterPopulate(st, row) == IF row # 0 THEN RepoDeselected ELSE st

\* _refresh_current_repo: a ValueError is reported and leaves the panel as
\* it was; any other exception leaves the handler; else the details are shown
RefreshCurrentRepo(st, w, current_repo) ==
    LET q == RefreshQueries(w, current_repo)
        outcome == [st EXCEPT !.raised = q.raised,
                              !.handle = q.manager.repo # None,
                              !.tree = w.tree,
                              !.status_failed = (q.manager.repo # None /\ ~w.diff_fails
                                                 /\ w.status_fails)]
    IN  IF q.raised # "none" THEN outcome
        ELSE [outcome EXCEPT !.label = "details",
                             !.dirty = q.dirty,
                             !.branches = Len(q.branch_list),
                             !.modified = Len(q.status_lines)]

\* what GitPython can find at path on the filesystem f
Worlds(f, path) ==
    IF ~Exists(f, path)
    THEN {[tree |-> "absent", dirty |-> FALSE, diff_fails |-> FALSE, status_fails |-> FALSE]}
    ELSE {[tree |-> "invalid", dirty |-> FALSE, diff_fails |-> FALSE, status_fails |-> FALSE]}
         \cup
         (IF IsGitRepository(f, path) /\ ~Unlistable(f, path)
          THEN {[tree |-> "valid", dirty |-> FALSE, diff_fails |-> TRUE, status_fails |-> TRUE]}
               \cup
               {[tree |-> "valid", dirty |-> d, diff_fails |-> FALSE, status_fails |-> sf] :
                    d \in BOOLEAN, sf \in BOOLEAN}
          ELSE {})

----------------------------------------------------------------------------
(* Filesystems and persisted lists drawn at Init.                          *)

BaseDir == <<"w">>

NoLinks == [p \in {} |-> <<>>]

OneLink(from, to) == [p \in {from} |-> to]

FileSystem(dirs, git, links, locked) ==
    [dirs |-> dirs, git |-> git, links |-> links, locked |-> locked]

\* /w with the directories a and b, either of which may hold .git, an
\* optional symbolic link /w/l to one of them, and b possibly unlistable
SmallFs ==
    {FileSystem({BaseDir, <<"w", "a">>, <<"w", "b">>}, git, links, locked) :
        git \in SUBSET {<<"w", "a">>, <<"w", "b">>},
        links \in {NoLinks, OneLink(<<"w", "l">>, <<"w", "a">>),
                   OneLink(<<"w", "l">>, <<"w", "b">>)},
        locked \in {{}, {<<"w", "b">>}}}

\* spellings a persisted list may hold: canonical, through the link, with a
\* "." or a ".." segment, a directory that is not on disk, and a string with
\* an embedded null byte
StoredStrings ==
    {<<"w", "a">>, <<"w", "b">>, <<"w", "l">>, <<"w", "a", ".">>,
     <<"w", "b", "..", "a">>, <<"w", "gone">>, <<"w", NullByteName>>}

StoredLists == SeqsUpTo(StoredStrings, MaxStored)

\* settings the user changed from the defaults
CustomSettings ==
    [auto_fetch_interval |-> 30, default_theme |-> "light",
     last_active_repo |-> "/w/a", git_user_name |-> "Example User",
     git_user_email |-> "user@example.com",
     other_preferences |-> {<<"sidebar", "left">>}]

NoCall == [stage |-> "none", stored |-> <<>>, scanned |-> <<>>, ok |-> TRUE,
           result |-> <<>>, again |-> <<>>, base |-> <<>>, max_depth |-> 0]

NoHistory == [op |-> "none", path |-> <<>>, pre |-> <<>>, preDisk |-> <<>>,
              changed |-> FALSE, prevOp |-> "none", prevPath |-> <<>>, prevPre |-> <<>>,
              base |-> <<>>, settings |-> DefaultSettings]

----------------------------------------------------------------------------
(* SpecMerge: _collect_repositories on every drawn configuration and       *)
(* filesystem, then either the same merge again on its own result (the     *)
(* next startup) or the window's rescan merge applied once and twice.      *)

InitMerge ==
    /\ fs \in SmallFs
    /\ config \in {AppConfig(base, stored) : base \in {<<>>, BaseDir}, stored \in StoredLists}
    /\ disk = ToDict(config)
    /\ items = <<>>
    /\ repos = <<>>
    /\ current = 0
    /\ pc = "start"
    /\ last = NoHistory
    /\ call = [NoCall EXCEPT !.stage = "input"]
    /\ status = NoStatus

ScannedNow == ScanForRepositories(fs, PathOf(config.base_directory), DefaultMaxDepth)

CallCollect ==
    /\ call.stage = "input"
    /\ LET out == CollectRepositories(fs, config)
       IN  call' = [call EXCEPT !.stage = "merged",
                                !.stored = PathsOf(config.repositories),
                                !.scanned = IF config.base_directory # <<>>
                                            THEN ScannedNow.repos ELSE <<>>,
                                !.ok = out.ok,
                                !.result = out.repos]
    /\ UNCHANGED <<fs, disk, config, items, repos, current, pc, last, status>>

\* the next startup, with the merged list as the persisted one
CallCollectAgain ==
    /\ call.stage = "merged"
    /\ call.ok
    /\ LET out == CollectRepositories(fs, [config EXCEPT !.repositories = StrsOf(call.result)])
       IN  call' = [call EXCEPT !.stage = "remerged", !.ok = out.ok, !.again = out.repos]
    /\ UNCHANGED <<fs, disk, config, items, repos, current, pc, last, status>>

\* the window's rescan merge on the list the window was opened with
CallRescan ==
    /\ call.stage \in {"merged", "rescanned"}
    /\ call.ok
    /\ config.base_directory # <<>>
    /\ LET list == IF call.stage = "merged" THEN call.result ELSE call.again
       IN  call' = [call EXCEPT !.stage = IF call.stage = "merged" THEN "rescanned"
                                          ELSE "rescanned2",
                                !.result = list,
                                !.again = RescanMerge(list, ScannedNow.repos)]
    /\ UNCHANGED <<fs, disk, config, items, repos, current, pc, last, status>>

NextMerge == CallCollect \/ CallCollectAgain \/ CallRescan

SpecMerge == InitMerge /\ [][NextMerge]_vars

----------------------------------------------------------------------------
(* Canonical paths of a list.                                              *)

Canon(f, list) == {Resolve(f, list[i]) : i \in 1..Len(list)}

\* the first position of list whose entry resolves to x
FirstAt(f, list, x) ==
    CHOOSE i \in 1..Len(list) :
        /\ Resolve(f, list[i]) = x
        /\ \A j \in 1..(i - 1) : Resolve(f, list[j]) # x

NoDuplicateCanonical(f, list) ==
    \A i, j \in 1..Len(list) : i # j => Resolve(f, list[i]) # Resolve(f, list[j])

MergeReturned == call.stage = "merged" /\ config.base_directory # <<>> /\ call.ok

----------------------------------------------------------------------------
(* Claims about the startup merge (SpecMerge).                             *)

\* C1: with a base directory set, the list _collect_repositories returns
\* holds the canonical form of every stored and scanned entry; the stored
\* entries come in their stored order (first occurrences), every entry found
\* only by the scan comes after all of them, in scan order, so a path in
\* both sits at its stored position.
C1_MergeKeepsStoredOrder ==
    MergeReturned =>
        LET A  == call.stored
            B  == call.scanned
            R  == call.result
            CA == Canon(fs, A)
            CB == Canon(fs, B)
        IN  /\ Range(R) = CA \cup CB
            /\ \A x, y \in CA :
                   FirstAt(fs, A, x) < FirstAt(fs, A, y) => IndexOf(R, x) < IndexOf(R, y)
            /\ \A x \in CA, y \in CB \ CA : IndexOf(R, x) < IndexOf(R, y)
            /\ \A x, y \in CB \ CA :
                   FirstAt(fs, B, x) < FirstAt(fs, B, y) => IndexOf(R, x) < IndexOf(R, y)

\* a merge of two distinct stored paths with a scan that found one of them
\* and a path that was not stored
C1_Witness ==
    /\ MergeReturned
    /\ Cardinality(Canon(fs, call.stored)) = 2
    /\ Canon(fs, call.stored) \cap Canon(fs, call.scanned) # {}
    /\ Canon(fs, call.scanned) \ Canon(fs, call.stored) # {}
    /\ Len(call.result) = 3

\* C2: the list the startup merge returns holds no two entries with the
\* same canonical path, whatever spellings the stored list and the scan hold.
C2_MergeNoDuplicates == MergeReturned => NoDuplicateCanonical(fs, call.result)

\* the stored list names one directory twice, under two spellings, and the
\* scan finds that directory too
C2_Witness ==
    /\ MergeReturned
    /\ Len(call.stored) = 2
    /\ call.stored[1] # call.stored[2]
    /\ Cardinality(Canon(fs, call.stored)) = 1
    /\ Len(call.scanned) >= 2
    /\ Canon(fs, call.stored) \subseteq Canon(fs, call.scanned)

\* C8: merging the merged list with the same scan again gives the merged
\* list, and a second rescan with the filesystem unchanged gives the list of
\* the first rescan.
C8_MergeIdempotent ==
    /\ call.stage = "remerged" => call.ok /\ call.again = call.result
    /\ call.stage = "rescanned2" => call.again = call.result

\* a second rescan, of a list the first rescan extended
C8_Witness ==
    /\ call.stage = "rescanned2"
    /\ Len(call.scanned) >= 2
    /\ Len(call.again) >= 2
    /\ ~NoDuplicateCanonical(fs, call.again)

\* a second startup merge over a stored list with repeated spellings
C8_WitnessRemerge ==
    /\ call.stage = "remerged"
    /\ config.base_directory # <<>>
    /\ Len(call.stored) > Cardinality(Canon(fs, call.stored))
    /\ Len(call.again) >= 2

\* the entries of list on which resolve() does not raise
Resolvable(list) == SelectSeq(list, LAMBDA p : ~ResolveRaises(p))

\* C18: when a stored entry cannot be resolved the merge does not raise; it
\* returns the list without that entry, with every other stored entry in it.
C18_MalformedEntryIsDropped ==
    (call.stage = "merged" /\ Resolvable(call.stored) # call.stored) =>
        /\ call.ok
        /\ \A i \in 1..Len(call.result) : ~ResolveRaises(call.result[i])
        /\ Canon(fs, Resolvable(call.stored)) \subseteq Canon(fs, call.result)

\* C20: with no base directory _collect_repositories returns the stored
\* entries in stored order, each resolved.
C20_NoBaseReturnsResolved ==
    (call.stage = "merged" /\ config.base_directory = <<>>
         /\ Resolvable(call.stored) = call.stored) =>
        /\ call.ok
        /\ call.result = [i \in 1..Len(call.stored) |-> Resolve(fs, call.stored[i])]

----------------------------------------------------------------------------
(* Spec: main() from the loading of the configuration to the open window,  *)
(* and the window's handlers.                                              *)

\* load_config() on a file that holds document: AppConfig.from_dict(data)
LoadConfig(document) == FromDict(document).config

\* a save_config that writes the base directory and the repository list only
SaveConfigTwoFields(cfg) == ToDict(AppConfig(cfg.base_directory, cfg.repositories))

\* save_config(config): the document json.dump(config.to_dict()) writes
SaveConfig(cfg) == ToDict(cfg)

\* a _persist_repositories that leaves the stored list as it was
KeepStoredRepositories(cfg, list) == cfg

\* _persist_repositories: config.preferences["repositories"] = [str(repo) ...]
WithRepositories(cfg, list) == [cfg EXCEPT !.repositories = StrsOf(list)]

\* a list.remove that drops the head of the list
ListRemoveHead(list, x) == Tail(list)

\* a list.remove that drops the last entry of the list
ListRemoveLast(list, x) == SubSeq(list, 1, Len(list) - 1)

\* list.remove(x): the first entry equal to x is deleted
ListRemove(list, x) == RemoveAt(list, IndexOf(list, x))

\* directories QFileDialog.getExistingDirectory can return: a directory of
\* the filesystem, named as the user reached it
DialogDirectories(f) ==
    {d \in {<<"w", "a">>, <<"w", "b">>, <<"w", "l">>} : IsDir(f, d)}

Init ==
    /\ fs \in SmallFs
    /\ disk \in {ToDict(AppConfig(base, stored)) :
                    base \in {<<>>, BaseDir}, stored \in StoredLists}
               \cup
               {ToDict(ConfigOf(base, stored, CustomSettings)) :
                    base \in {<<>>, BaseDir},
                    stored \in SeqsUpTo(StoredStrings, MaxStoredCustom)}
    /\ config = DefaultConfig
    /\ items = <<>>
    /\ repos = <<>>
    /\ current = 0
    /\ pc = "start"
    /\ last = NoHistory
    /\ call = NoCall
    /\ status = NoStatus

\* the entry of last for a handler that ran
Ran(op, path, changed) ==
    [op |-> op, path |-> path, pre |-> repos, preDisk |-> disk.repositories,
     changed |-> changed,
     prevOp   |-> IF op = "remove" THEN last.op ELSE "none",
     prevPath |-> IF op = "remove" /\ last.op = "add" THEN last.path ELSE <<>>,
     prevPre  |-> IF op = "remove" /\ last.op = "add" THEN last.pre ELSE <<>>,
     base     |-> last.base,
     settings |-> last.settings]

\* main(): config = load_config(); StartupWizard.run_if_needed(config)
\* returns True at once when a base directory is configured
MainLoadConfig ==
    /\ pc = "start"
    /\ config' = LoadConfig(disk)
    /\ pc' = IF config'.base_directory # <<>> THEN "collect" ELSE "wizard"
    /\ UNCHANGED <<fs, disk, items, repos, current, last, call, status>>

\* StartupWizard._choose_directory; an empty directory is a cancelled dialog
WizardChooseDirectory(directory) ==
    /\ pc = "wizard"
    /\ IF directory = <<>>
       THEN UNCHANGED <<config, disk>>
       ELSE /\ config' = [config EXCEPT !.base_directory = directory]
            /\ disk' = SaveConfig(config')
    /\ UNCHANGED <<fs, items, repos, current, pc, last, call, status>>

\* the Continue button, enabled once a base directory is set
WizardContinue ==
    /\ pc = "wizard"
    /\ config.base_directory # <<>>
    /\ pc' = "collect"
    /\ UNCHANGED <<fs, disk, config, items, repos, current, last, call, status>>

\* the dialog is rejected: main() returns 0
WizardCancel ==
    /\ pc = "wizard"
    /\ pc' = "exited"
    /\ UNCHANGED <<fs, disk, config, items, repos, current, last, call, status>>

\* main(): save_config(config); repositories = _collect_repositories(config);
\* MainWindow(config, repositories), whose constructor populates the list
MainOpenWindow ==
    /\ pc = "collect"
    /\ disk' = SaveConfig(config)
    /\ LET out == CollectRepositories(fs, config)
       IN  IF out.ok
           THEN /\ repos' = out.repos
                /\ items' = StrsOf(out.repos)
                /\ pc' = "window"
                /\ last' = [NoHistory EXCEPT !.op = "startup",
                                             !.pre = PathsOf(config.repositories),
                                             !.preDisk = disk.repositories,
                                             !.base = config.base_directory,
                                             !.settings = SettingsOf(config)]
           ELSE /\ pc' = "crashed"
                /\ UNCHANGED <<repos, items, last>>
    /\ UNCHANGED <<fs, config, current, call, status>>

\* an exception _refresh_current_repo does not catch leaves the slot, and
\* PyQt5 ends the process
Uncaught(raised) == raised \notin {"none", "ValueError"}

\* MainWindow._on_add_repo; setCurrentRow selects the new row, which
\* refreshes the panel before the list is persisted: an exception of the
\* refresh leaves the handler with the list appended to and not saved
OnAddRepo(directory) ==
    /\ pc = "window"
    /\ IF directory = <<>>
       THEN UNCHANGED <<disk, config, items, repos, current, pc, last, status>>
       ELSE LET path == PathOf(directory)
            IN  /\ path \in Range(repos) \/ Len(repos) < MaxRepos
                /\ IF path \notin Range(repos)
                   THEN /\ repos' = Append(repos, path)
                        /\ items' = StrsOf(repos')
                        /\ current' = IndexOf(repos', path)
                        /\ \E w \in Worlds(fs, path) :
                               status' = RefreshCurrentRepo(AfterPopulate(status, current),
                                                            w, path)
                        /\ IF Uncaught(status'.raised)
                           THEN /\ pc' = "crashed"
                                /\ last' = Ran("aborted", path, TRUE)
                                /\ UNCHANGED <<disk, config>>
                           ELSE /\ config' = WithRepositories(config, repos')
                                /\ disk' = SaveConfig(config')
                                /\ pc' = pc
                                /\ last' = Ran("add", path, TRUE)
                   ELSE /\ UNCHANGED <<disk, config, items, repos, current, pc, status>>
                        /\ last' = Ran("add", path, FALSE)
    /\ UNCHANGED <<fs, call>>

\* MainWindow._on_remove_repo
OnRemoveRepo ==
    /\ pc = "window"
    /\ IF current = 0
       THEN /\ UNCHANGED <<disk, config, items, repos, current, status>>
            /\ last' = Ran("remove", <<>>, FALSE)
       ELSE LET repo_path == PathOf(items[current])
            IN  /\ IF repo_path \in Range(repos)
                   THEN /\ repos' = ListRemove(repos, repo_path)
                        /\ items' = StrsOf(repos')
                        /\ current' = 0
                        /\ status' = AfterPopulate(status, current)
                        /\ config' = WithRepositories(config, repos')
                        /\ disk' = SaveConfig(config')
                   ELSE UNCHANGED <<disk, config, items, repos, current, status>>
                /\ last' = Ran("remove", repo_path, repo_path \in Range(repos))
    /\ UNCHANGED <<fs, pc, call>>

\* MainWindow._on_rescan_repositories; an exception of the scan leaves the
\* handler before it assigns anything
OnRescanRepositories ==
    /\ pc = "window"
    /\ IF config.base_directory = <<>>
       THEN UNCHANGED <<disk, config, items, repos, current, pc, last, status>>
       ELSE LET scanned == ScanForRepositories(fs, PathOf(config.base_directory),
                                               DefaultMaxDepth)
            IN  IF scanned.ok
                THEN /\ repos' = RescanMerge(repos, scanned.repos)
                     /\ items' = StrsOf(repos')
                     /\ current' = 0
                     /\ status' = AfterPopulate(status, current)
                     /\ config' = WithRepositories(config, repos')
                     /\ disk' = SaveConfig(config')
                     /\ last' = Ran("rescan", <<>>, repos' # repos)
                     /\ pc' = pc
                ELSE /\ pc' = "crashed"
                     /\ UNCHANGED <<disk, config, items, repos, current, last, status>>
    /\ UNCHANGED <<fs, call>>

\* the user makes another row the current one: _on_repo_selected(item),
\* which ends with _refresh_current_repo
OnSelectRow(row) ==
    /\ pc = "window"
    /\ row \in 1..Len(items)
    /\ row # current
    /\ current' = row
    /\ \E w \in Worlds(fs, PathOf(items[row])) :
           status' = RefreshCurrentRepo(status, w, PathOf(items[row]))
    /\ pc' = IF Uncaught(status'.raised) THEN "crashed" ELSE pc
    /\ UNCHANGED <<fs, disk, config, items, repos, last, call>>

\* the Refresh button: _refresh_current_repo on the current repository
OnRefreshClicked ==
    /\ pc = "window"
    /\ current # 0
    /\ \E w \in Worlds(fs, PathOf(items[current])) :
           status' = RefreshCurrentRepo(status, w, PathOf(items[current]))
    /\ pc' = IF Uncaught(status'.raised) THEN "crashed" ELSE pc
    /\ UNCHANGED <<fs, disk, config, items, repos, current, last, call>>

Next ==
    \/ MainLoadConfig
    \/ \E directory \in {<<>>, BaseDir} : WizardChooseDirectory(directory)
    \/ WizardContinue
    \/ WizardCancel
    \/ MainOpenWindow
    \/ \E directory \in DialogDirectories(fs) \cup {<<>>} : OnAddRepo(directory)
    \/ OnRemoveRepo
    \/ OnRescanRepositories
    \/ \E row \in 1..Len(items) : OnSelectRow(row)
    \/ OnRefreshClicked

Spec == Init /\ [][Next]_vars

----------------------------------------------------------------------------
(* Claims about the window's repository list (Spec).                       *)

\* C3: the window's repository list never holds two entries with the same
\* canonical path.
C3_NoDuplicateCanonicalPaths == pc = "window" => NoDuplicateCanonical(fs, repos)

\* C4 as stated: add(path) followed at once by remove(path) gives back the
\* list as it was before the add, also when the path was in the list before.
C4_AddThenRemoveRestores ==
    (last.op = "remove" /\ last.prevOp = "add" /\ last.path = last.prevPath)
        => repos = last.prevPre

\* C4 amended: add(path) followed at once by remove(path) gives back the list
\* as it was before the add when the list held no entry equal to path; when
\* it held one, the add changed nothing and the remove deleted that entry.
C4_AddThenRemoveOfNewPath ==
    (last.op = "remove" /\ last.prevOp = "add" /\ last.path = last.prevPath)
        => IF last.prevPath \notin Range(last.prevPre)
           THEN repos = last.prevPre
           ELSE /\ last.pre = last.prevPre
                /\ repos = RemoveAt(last.prevPre, IndexOf(last.prevPre, last.prevPath))

\* a path was appended to a list of two and removed again
C4_Witness ==
    /\ last.op = "remove"
    /\ last.prevOp = "add"
    /\ last.path = last.prevPath
    /\ last.prevPath \notin Range(last.prevPre)
    /\ Len(last.prevPre) = 2
    /\ Len(last.pre) = 3

\* C5: add(path) appends the path when no entry has the same canonical path,
\* and changes nothing otherwise.
C5_AddByCanonicalEquality ==
    last.op = "add" =>
        IF Resolve(fs, last.path) \notin Canon(fs, last.pre)
        THEN repos = Append(last.pre, last.path)
        ELSE repos = last.pre

\* C6: remove deletes the one entry equal to the current item and keeps the
\* others in order, and the saved list is the new one; with no current item
\* (or no entry equal to it) the list and the saved list stay as they were.
C6_RemoveDeletesOneEntry ==
    last.op = "remove" =>
        IF last.path # <<>> /\ last.path \in Range(last.pre)
        THEN /\ Cardinality({i \in 1..Len(last.pre) : last.pre[i] = last.path}) = 1
             /\ \E i \in 1..Len(last.pre) :
                    /\ last.pre[i] = last.path
                    /\ repos = RemoveAt(last.pre, i)
             /\ Len(repos) = Len(last.pre) - 1
             /\ last.changed
        ELSE /\ repos = last.pre
             /\ disk.repositories = last.preDisk
             /\ ~last.changed

\* the middle entry of a list of three was removed
C6_Witness ==
    /\ last.op = "remove"
    /\ Len(last.pre) = 3
    /\ last.pre[2] = last.path
    /\ Len(repos) = 2

\* remove with no current item
C6_WitnessNothingSelected ==
    /\ last.op = "remove"
    /\ last.path = <<>>
    /\ Len(repos) >= 1

\* C7: the list a rescan produces is the list the startup merge produces
\* from the same current list and the same scan result.
C7_RescanEqualsMerge ==
    (last.op = "rescan" /\ config.base_directory # <<>>) =>
        repos = Merge(fs, last.pre,
                      ScanForRepositories(fs, PathOf(config.base_directory),
                                          DefaultMaxDepth).repos)

\* C9: after an add, remove or rescan that changed the list, the saved
\* 'repositories' field (and the one of the AppConfig) is the window's list,
\* entry by entry in the same order.
C9_ListChangeIsPersisted ==
    (last.op \in {"add", "remove", "rescan"} /\ last.changed) =>
        /\ disk.repositories = StrsOf(repos)
        /\ config.repositories = StrsOf(repos)
        /\ PathsOf(disk.repositories) = repos

\* a rescan extended the list while the saved list was another one
C9_Witness ==
    /\ last.op = "rescan"
    /\ last.changed
    /\ last.preDisk # StrsOf(last.pre)
    /\ Len(repos) >= 2

\* C19: startup, add and rescan keep every entry: after startup every stored
\* path is in the list in its resolved form, whether or not it is a directory
\* on disk, and add and rescan only append to the list.
C19_OnlyRemoveShrinks ==
    /\ (pc = "window" /\ last.op = "startup") =>
           Canon(fs, last.pre) \subseteq Range(repos)
    /\ (pc = "window" /\ last.op \in {"add", "rescan"}) => IsPrefix(last.pre, repos)

\* a rescan that appended to a list holding a path that is no directory on
\* disk, kept by the startup merge before
C19_Witness ==
    /\ pc = "window"
    /\ last.op = "rescan"
    /\ Len(repos) > Len(last.pre)
    /\ \E i \in 1..Len(last.pre) : ~Exists(fs, last.pre[i]) /\ last.pre[i] \in Range(repos)
    /\ \E i \in 1..Len(config.repositories) : ~Exists(fs, PathOf(config.repositories[i]))

\* C25: once the window is open, whatever add, remove and rescan did, the
\* base directory and every setting beside the repository list are those
\* the window was opened with, in the AppConfig and in the saved document.
C25_OnlyRepositoriesChange ==
    last.op # "none" =>
        /\ config.base_directory = last.base
        /\ SettingsOf(config) = last.settings
        /\ disk = ToDict(ConfigOf(last.base, disk.repositories, last.settings))

\* a handler changed and saved the list of a configuration whose settings
\* are not the defaults
C25_Witness ==
    /\ last.op \in {"add", "remove", "rescan"}
    /\ last.changed
    /\ disk.repositories # last.preDisk
    /\ last.settings = CustomSettings
    /\ last.base # <<>>

\* C16: a refresh of a path that is no valid working tree, absent from disk
\* or without a repository in it, ends with the ValueError of load and with
\* the handle of the manager unset.
C16_InvalidPathGivesValueError ==
    status.tree \in {"absent", "invalid"} =>
        /\ status.raised = "ValueError"
        /\ ~status.handle

\* C17: when the command behind list_status fails on an opened repository,
\* the refresh raises nothing and shows the details: the dirty flag, the
\* branch list and no changed path.
C17_StatusFailureIsRecovered ==
    status.status_failed =>
        /\ status.raised = "none"
        /\ status.handle
        /\ status.label = "details"
        /\ status.branches = Len(Branches)
        /\ status.modified = 0

\* a refresh of a dirty repository whose status command failed, in an open
\* window
C17_Witness ==
    /\ pc = "window"
    /\ current # 0
    /\ status.status_failed
    /\ status.dirty
    /\ status.label = "details"

----------------------------------------------------------------------------
(* SpecScan: scan_for_repositories on every drawn tree, base directory and *)
(* max_depth.                                                              *)

\* the paths below BaseDir, to MaxTreeDepth levels, over the names a, b and
\* .h, with at most one segment that is not a
TreeNodes ==
    {BaseDir \o s : s \in {t \in SeqsUpTo({"a", "b", ".h"}, MaxTreeDepth) :
                              Cardinality({i \in 1..Len(t) : t[i] # "a"}) <= 1}}

Ancestors(nodes) == {q \in TreeNodes : \E p \in nodes : IsPrefix(q, p)}

\* a tree with at most two directories holding .git, the directories above
\* them, at most one symbolic link (to a sibling, to a deeper directory, or
\* back to the base directory) and at most one unlistable directory
ScanFs ==
    UNION {
        {FileSystem(Ancestors({x, y}) \cup {BaseDir}, git, links, locked) :
            git \in {{x, y}, {x}, {}},
            links \in {NoLinks, OneLink(<<"w", "l">>, <<"w", "a">>),
                       OneLink(<<"w", "l">>, <<"w", "a", "a">>),
                       OneLink(<<"w", "a", "l">>, BaseDir)},
            locked \in {{}, {x}, {Parent(y)}}} :
        x \in TreeNodes, y \in TreeNodes}

InitScan ==
    /\ fs \in ScanFs
    /\ \E base \in {BaseDir, <<"w", "a">>, <<"gone">>}, max_depth \in 0..MaxScanDepth :
           call = [NoCall EXCEPT !.stage = "input", !.base = base, !.max_depth = max_depth]
    /\ disk = ToDict(DefaultConfig)
    /\ config = DefaultConfig
    /\ items = <<>>
    /\ repos = <<>>
    /\ current = 0
    /\ pc = "start"
    /\ last = NoHistory
    /\ status = NoStatus

CallScan ==
    /\ call.stage = "input"
    /\ LET out == ScanForRepositories(fs, call.base, call.max_depth)
       IN  call' = [call EXCEPT !.stage = "scanned", !.ok = out.ok, !.result = out.repos]
    /\ UNCHANGED <<fs, disk, config, items, repos, current, pc, last, status>>

NextScan == CallScan

SpecScan == InitScan /\ [][NextScan]_vars

----------------------------------------------------------------------------
(* Claims about scan_for_repositories (SpecScan).                          *)

ScanReturned == call.stage = "scanned" /\ call.ok

\* levels of path p below the base directory of the call
DepthBelowBase(p) == Len(p) - Len(Resolve(fs, call.base))

\* the paths base/n1/.../nk of at most max_depth names
PathsBelowBase ==
    {Resolve(fs, call.base) \o s : s \in SeqsUpTo({"a", "b", ".h", "l"}, call.max_depth)}

\* p is reached by the traversal: no name below the base begins with a dot,
\* and every directory above p, from the base down, is a directory without .git
ReachedByScan(p) ==
    LET base == Resolve(fs, call.base)
    IN  /\ \A i \in (Len(base) + 1)..Len(p) : ~StartsWithDot(p[i])
        /\ \A k \in Len(base)..(Len(p) - 1) :
               /\ IsDir(fs, SubSeq(p, 1, k))
               /\ ~IsGitRepository(fs, SubSeq(p, 1, k))

NamesBelowBase(p) == {p[i] : i \in (Len(Resolve(fs, call.base)) + 1)..Len(p)}

\* C11: no returned path lies below another returned path, and a base
\* directory that holds .git is the whole result.
C11_ScanStopsAtRepository ==
    ScanReturned =>
        /\ \A i, j \in 1..Len(call.result) :
               i # j => ~IsPrefix(call.result[i], call.result[j])
        /\ IsGitRepository(fs, call.base) => call.result = <<Resolve(fs, call.base)>>

\* a scan of a base directory that holds .git, with another directory
\* holding .git inside it
C11_Witness ==
    /\ ScanReturned
    /\ call.max_depth >= 1
    /\ IsGitRepository(fs, call.base)
    /\ \E d \in fs.git : d # Resolve(fs, call.base) /\ IsPrefix(Resolve(fs, call.base), d)
                         /\ DepthBelowBase(d) <= call.max_depth
    /\ Len(call.result) = 1

\* C12: on a base directory that does not exist the scan returns the empty
\* list and does not raise.
C12_ScanOfMissingBaseIsEmpty ==
    (call.stage = "scanned" /\ ~Exists(fs, call.base)) => call.ok /\ call.result = <<>>

\* a scan of a missing base directory, beside a tree that holds repositories
C12_Witness ==
    /\ call.stage = "scanned"
    /\ ~Exists(fs, call.base)
    /\ fs.git # {}
    /\ call.ok

\* C13: on an existing base directory the scan never raises.
C13_ScanNeverRaises ==
    (call.stage = "scanned" /\ Exists(fs, call.base)) => call.ok

\* C14: no two entries of the scan result denote the same canonical
\* directory.
C14_ScanResultHasNoDuplicates ==
    ScanReturned => NoDuplicateCanonical(fs, call.result)

\* C15: no returned path has a dot-named segment below the base directory;
\* is_git_repository is evaluated on no directory with such a segment and on
\* no directory deeper than max_depth, so not on the children of a directory
\* without .git at depth max_depth.
C15_ScanSkipsDotNamesAndDepth ==
    (call.stage = "scanned" /\ Exists(fs, call.base)) =>
        LET examined == Examined(fs, Resolve(fs, call.base), 0, call.max_depth)
        IN  /\ \A i \in 1..Len(call.result) :
                   \A name \in NamesBelowBase(call.result[i]) : ~StartsWithDot(name)
            /\ \A d \in examined :
                   /\ \A name \in NamesBelowBase(d) : ~StartsWithDot(name)
                   /\ DepthBelowBase(d) <= call.max_depth
                   /\ (DepthBelowBase(d) = call.max_depth /\ ~IsGitRepository(fs, d))
                          => \A name \in Range(ListingOrder) : Append(d, name) \notin examined

\* a scan that returned, in a tree with .git below a dot-named child of a
\* visited directory and in a child of a directory at depth max_depth
C15_Witness ==
    /\ ScanReturned
    /\ \E d \in fs.git :
           /\ IsPrefix(Resolve(fs, call.base), d)
           /\ StartsWithDot(d[Len(d)])
           /\ Parent(d) \in Examined(fs, Resolve(fs, call.base), 0, call.max_depth)
           /\ ~IsGitRepository(fs, Parent(d))
    /\ \E d \in fs.git :
           /\ IsPrefix(Resolve(fs, call.base), d)
           /\ DepthBelowBase(d) = call.max_depth + 1
           /\ ~StartsWithDot(d[Len(d)])
           /\ Parent(d) \in Examined(fs, Resolve(fs, call.base), 0, call.max_depth)
           /\ ~IsGitRepository(fs, Parent(d))

----------------------------------------------------------------------------
(* SpecConfig: save_config of a drawn AppConfig into a drawn configuration *)
(* directory, whole or cut short, and load_config once and twice.          *)

\* documents a configuration file may hold
StoredDocuments ==
    LET custom == ToDict(ConfigOf(BaseDir, <<<<"w", "a">>>>, CustomSettings))
    IN  {ToDict(DefaultConfig), custom,
         [custom EXCEPT !.auto_fetch_interval = JsonStr("20")],
         [custom EXCEPT !.auto_fetch_interval = JsonStr("abc")],
         [custom EXCEPT !.auto_fetch_interval = JsonNull],
         [base_directory |-> BaseDir]}

ConfigFiles ==
    {NoFile, FileOf(NotJson), FileOf(JsonArray), FileOf(<<>>)}
    \cup {FileOf(JsonDump(document)) : document \in StoredDocuments}

\* the AppConfig values given to save_config
SavedConfigs ==
    {DefaultConfig, AppConfig(BaseDir, <<<<"w", "b">>>>),
     ConfigOf(BaseDir, <<<<"w", "b">>, <<"w", "a">>>>, CustomSettings)}

NoLoad == [raised |-> "none", config |-> DefaultConfig]

NoConfigCall ==
    [stage |-> "input", saved |-> "none", previous |-> NoLoad, loads |-> 0,
     before |-> [file |-> NoFile, backup |-> NoFile], rename_ok |-> TRUE,
     first |-> NoLoad, result |-> NoLoad]

InitConfig ==
    /\ fs = FileSystem({BaseDir}, {}, NoLinks, {})
    /\ disk \in {[file |-> file, backup |-> backup] :
                    file \in ConfigFiles, backup \in {NoFile, FileOf(NotJson)}}
    /\ config \in SavedConfigs
    /\ items = <<>>
    /\ repos = <<>>
    /\ current = 0
    /\ pc = "start"
    /\ last = NoHistory
    /\ call = NoConfigCall
    /\ status = NoStatus

\* what load_config returned, or would have returned, on directory
Loaded(directory) ==
    [raised |-> LoadConfigFile(directory, TRUE).raised,
     config |-> LoadConfigFile(directory, TRUE).config]

ConfigSave ==
    /\ call.stage = "input"
    /\ disk' = SaveConfigFile(disk, config)
    /\ call' = [call EXCEPT !.stage = "written", !.saved = "complete",
                            !.previous = Loaded(disk)]
    /\ UNCHANGED <<fs, config, items, repos, current, pc, last, status>>

\* the process ends inside save_config, after n pieces of the text
ConfigSaveInterrupted(n) ==
    /\ call.stage = "input"
    /\ n < Len(JsonDump(ToDict(config)))
    /\ disk' = SaveConfigCutAt(disk, config, n)
    /\ call' = [call EXCEPT !.stage = "written", !.saved = "interrupted",
                            !.previous = Loaded(disk)]
    /\ UNCHANGED <<fs, config, items, repos, current, pc, last, status>>

ConfigLoad(rename_ok) ==
    /\ call.stage \in {"input", "written", "loaded"}
    /\ LET out == LoadConfigFile(disk, rename_ok)
           got == [raised |-> out.raised, config |-> out.config]
       IN  /\ disk' = out.disk
           /\ call' = IF call.loads = 0
                      THEN [call EXCEPT !.stage = "loaded", !.loads = 1, !.before = disk,
                                        !.rename_ok = rename_ok, !.first = got,
                                        !.result = got]
                      ELSE [call EXCEPT !.stage = "loaded2", !.loads = 2, !.result = got]
    /\ UNCHANGED <<fs, config, items, repos, current, pc, last, status>>

NextConfig ==
    \/ ConfigSave
    \/ \E n \in 0..Len(DocumentKeys) + 1 : ConfigSaveInterrupted(n)
    \/ \E rename_ok \in BOOLEAN : ConfigLoad(rename_ok)

SpecConfig == InitConfig /\ [][NextConfig]_vars

----------------------------------------------------------------------------
(* Claims about load_config and save_config (SpecConfig).                  *)

\* the first load_config met a file that json.load cannot parse
LoadedUnparsable ==
    /\ call.loads >= 1
    /\ call.before.file.exists
    /\ ~JsonLoad(call.before.file.text).ok

C23_SaveIsAtomic ==
    (call.saved = "interrupted" /\ call.loads >= 1 /\ call.previous.raised = "none") =>
        /\ call.first.raised = "none"
        /\ call.first.config \in {call.previous.config, config}

\* C24: load_config never raises, whatever the file holds.
C24_LoadNeverRaises ==
    call.loads >= 1 => (call.first.raised = "none" /\ call.result.raised = "none")

----------------------------------------------------------------------------
(* SpecGit: the queries of GitManager on one manager after another.  A     *)
(* refresh makes its own manager; the other actions call one method on the *)
(* manager at hand.  call.before is the manager as the last action found   *)
(* it, call.raised the exception that left the last action.                *)

GitPaths == {<<"w", "a">>, <<"w", "b">>, <<"w", "gone">>}

InitGit ==
    /\ fs \in SmallFs
    /\ disk = ToDict(DefaultConfig)
    /\ config = DefaultConfig
    /\ items = <<>>
    /\ repos = <<>>
    /\ current = 0
    /\ pc = "start"
    /\ last = NoHistory
    /\ \E path \in GitPaths :
           call = [stage |-> "git", op |-> "new", path |-> path, queries |-> 0,
                   manager |-> GitManager(path), before |-> GitManager(path),
                   raised |-> "none"]
    /\ status = NoStatus

\* the state after a method of the manager at hand returned out
Queried(op, out) ==
    /\ call.queries < MaxQueries
    /\ call' = [call EXCEPT !.op = op, !.queries = @ + 1, !.before = call.manager,
                            !.manager = out.manager, !.raised = out.raised]
    /\ UNCHANGED <<fs, disk, config, items, repos, current, pc, last, status>>

GitIsDirty == \E w \in Worlds(fs, call.path) : Queried("is_dirty", IsDirty(w, call.manager))

GitListBranches ==
    \E w \in Worlds(fs, call.path) : Queried("list_branches", ListBranches(w, call.manager))

GitCurrentBranch ==
    \E w \in Worlds(fs, call.path), detached \in BOOLEAN :
        Queried("current_branch", CurrentBranch(w, call.manager, detached))

GitListStatus ==
    \E w \in Worlds(fs, call.path) : Queried("list_status", ListStatus(w, call.manager))

\* _refresh_current_repo on current_repo: manager = GitManager(current_repo)
GitRefresh(current_repo) ==
    /\ call.queries < MaxQueries
    /\ \E w \in Worlds(fs, current_repo) :
           LET q == RefreshQueries(w, current_repo)
           IN  call' = [call EXCEPT !.op = "refresh", !.queries = @ + 1,
                                    !.path = current_repo,
                                    !.before = call.manager,
                                    !.manager = q.manager, !.raised = q.raised]
    /\ UNCHANGED <<fs, disk, config, items, repos, current, pc, last, status>>

NextGit ==
    \/ GitIsDirty
    \/ GitListBranches
    \/ GitCurrentBranch
    \/ GitListStatus
    \/ \E current_repo \in GitPaths : GitRefresh(current_repo)

SpecGit == InitGit /\ [][NextGit]_vars

\* C26: a manager is Closed (repo unset) or Open.  A method called on a
\* Closed manager opens it before it answers; on an Open manager it leaves
\* the handle as it is, so the handle is never unset again and is assigned
\* at most once; a failed open leaves the manager Closed; and a refresh
\* works on a manager of its own, made for the repository it refreshes.
C26_HandleOpensOnce ==
    call.stage = "git" =>
        /\ call.manager.opens <= 1
        /\ (call.manager.repo # None) <=> (call.manager.opens = 1)
        /\ call.manager.repo # None => call.manager.repo = call.manager.repo_path
        /\ call.manager.repo_path = call.path
        /\ (call.op \notin {"new", "refresh"} /\ call.before.repo # None)
               => call.manager = call.before
        /\ (call.op # "new" /\ call.raised \in {"none", "GitCommandError", "TypeError"})
               => call.manager.repo # None
        /\ (call.op # "new" /\ call.raised \in {"ValueError", "NoSuchPathError"})
               => (call.manager.repo = None /\ call.manager.opens = 0)

\* a query on an Open manager, and a refresh of another repository after a
\* manager was opened
C26_Witness ==
    /\ call.stage = "git"
    /\ call.op = "refresh"
    /\ call.queries = MaxQueries
    /\ call.before.repo # None
    /\ call.before.repo_path # call.manager.repo_path
    /\ call.manager.repo # None

----------------------------------------------------------------------------
(* SpecWalk: scan_for_repositories one call of _scan at a time.  The calls *)
(* of _scan that are still to be made stand on call.stack, the next one    *)
(* first: a frame is the directory and the depth _scan is called with.  A  *)
(* call of _scan takes its frame off the stack and puts the frames of its  *)
(* recursive calls in its place, in the order of the for loop.             *)

\* the longest path of a frame: the resolved base directory is at most two
\* names long and _scan goes at most max_depth + 1 names below it
MaxPathLen == MaxScanDepth + 3

Frame(directory, depth) == [directory |-> directory, depth |-> depth]

\* the children _scan recurses into: directories whose name has no leading dot
ScannedChildren(f, directory) ==
    SelectSeq(ChildDirs(f, directory), LAMBDA name : ~StartsWithDot(name))

\* a _scan that passes its own depth on to the recursive calls
ChildFramesSameDepth(f, frame) ==
    LET names == ScannedChildren(f, frame.directory)
    IN  [i \in 1..Len(names) |-> Frame(Append(frame.directory, names[i]), frame.depth)]

\* _scan(child, depth + 1) for each child of the for loop
ChildFrames(f, frame) ==
    LET names == ScannedChildren(f, frame.directory)
    IN  [i \in 1..Len(names) |-> Frame(Append(frame.directory, names[i]), frame.depth + 1)]

\* trees whose symbolic link, if any, leads back to the base directory or
\* to the directory that holds it
WalkFs ==
    UNION {
        {FileSystem(Ancestors({x, y}) \cup {BaseDir}, git, links, locked) :
            git \in {{x}, {}},
            links \in {NoLinks, OneLink(<<"w", "l">>, BaseDir),
                       OneLink(<<"w", "a", "l">>, BaseDir),
                       OneLink(<<"w", "a", "l">>, <<"w", "a">>)},
            locked \in {{}, {y}}} :
        x \in TreeNodes, y \in TreeNodes}

InitWalk ==
    /\ fs \in WalkFs
    /\ \E base \in {BaseDir, <<"w", "a">>, <<"gone">>}, max_depth \in 0..MaxScanDepth :
           call = [stage |-> "input", base |-> base, max_depth |-> max_depth,
                   stack |-> <<>>, result |-> <<>>]
    /\ disk = ToDict(DefaultConfig)
    /\ config = DefaultConfig
    /\ items = <<>>
    /\ repos = <<>>
    /\ current = 0
    /\ pc = "start"
    /\ last = NoHistory
    /\ status = NoStatus

\* the lines before _scan(base_directory, 0)
WalkStart ==
    /\ call.stage = "input"
    /\ call' = IF ~Exists(fs, call.base)
               THEN [call EXCEPT !.stage = "done"]
               ELSE [call EXCEPT !.stage = "scanning",
                                 !.stack = <<Frame(Resolve(fs, call.base), 0)>>]
    /\ UNCHANGED <<fs, disk, config, items, repos, current, pc, last, status>>

\* one call of _scan, up to its recursive calls
WalkScan ==
    /\ call.stage = "scanning"
    /\ call.stack # <<>>
    /\ LET frame == Head(call.stack)
           directory == frame.directory
       IN  /\ Len(directory) <= MaxPathLen
           /\ call' =
                  IF frame.depth > call.max_depth
                  THEN [call EXCEPT !.stack = Tail(call.stack)]
                  ELSE IF Unlistable(fs, directory)
                  THEN [call EXCEPT !.stage = "raised"]
                  ELSE IF IsGitRepository(fs, directory)
                  THEN [call EXCEPT !.stack = Tail(call.stack),
                                    !.result = Append(call.result, directory)]
                  ELSE IF ~IsDir(fs, directory)
                  THEN [call EXCEPT !.stage = "raised"]
                  ELSE [call EXCEPT !.stack = ChildFrames(fs, frame) \o Tail(call.stack)]
    /\ UNCHANGED <<fs, disk, config, items, repos, current, pc, last, status>>

\* return repositories, after _scan(base_directory, 0) returned
WalkReturn ==
    /\ call.stage = "scanning"
    /\ call.stack = <<>>
    /\ call' = [call EXCEPT !.stage = "done"]
    /\ UNCHANGED <<fs, disk, config, items, repos, current, pc, last, status>>

NextWalk == WalkStart \/ WalkScan \/ WalkReturn

\* a call that was started keeps running: nothing else decides when _scan
\* takes its next step
SpecWalk == InitWalk /\ [][NextWalk]_vars /\ WF_vars(NextWalk)

WalkEnded == call.stage \in {"done", "raised"}

\* every call of _scan still to be made is at most one level past max_depth,
\* on a path that many names below the base directory
WalkDepthBounded ==
    call.stage = "scanning" =>
        \A i \in 1..Len(call.stack) :
            /\ call.stack[i].depth <= call.max_depth + 1
            /\ Len(call.stack[i].directory)
                   = Len(Resolve(fs, call.base)) + call.stack[i].depth
            /\ Len(call.stack[i].directory) <= MaxPathLen

\* C27: scan_for_repositories ends, by returning or by raising, on every
\* tree and every max_depth >= 0, trees with a cycle of symbolic links
\* included: each recursive call is one level deeper than its caller and no
\* call is made more than one level past max_depth.
C27_ScanTerminates == [](WalkDepthBounded) /\ <>(WalkEnded)

\* a scan that returned after it went round a cycle of symbolic links
C27_Witness ==
    /\ call.stage = "done"
    /\ call.max_depth = MaxScanDepth
    /\ Resolve(fs, <<"w", "a", "l">>) = BaseDir
    /\ <<"w", "a", "l", "b">> \in Range(call.result)
    /\ call.result = ScanForRepositories(fs, call.base, call.max_depth).repos

====
